---- MODULE Spec2Model ----
(***************************************************************************)
(* Model of the browser client of danovy-poradce-pro: the auth store       *)
(* (stores/useAuthStore.ts), the API client (services/api.ts), the route   *)
(* guard (components/ProtectedRoute) and the persisted company and         *)
(* settings stores.                                                        *)
(*                                                                         *)
(* The page is single-threaded: one step of the model is one run of the    *)
(* event loop, that is the call of an operation up to its first fetch, or  *)
(* the arrival of one response together with every continuation that runs  *)
(* before the next fetch is awaited.  The server is the environment: each  *)
(* response is a nondeterministic choice.                                  *)
(***************************************************************************)
EXTENDS Integers, Sequences, FiniteSets, TLC

\* ---------------------------------------------------------------- bounds
\* Number of api calls that can be in flight at the same time.
MaxCalls == 2
\* Number of operations of the auth store (login, register, fetchUser) that
\* can be in flight at the same time.
MaxOps == 1
\* Number of GET /auth/me requests after which the server stops answering
\* 401 to one fetchUser call (the code itself has no such limit).
MaxMe == 3
\* Number of actions of the company, transaction and invoice stores (create,
\* update, delete, markAsPaid, list fetch, setFilters, setPage) called per
\* page load.
MaxActions == 2
\* the numbers formatted are n / 10000 for n in -MaxArg .. MaxArg
MaxArg == 2500

CallIds == 1..MaxCalls
AuthOpIds == 1..MaxOps
OpIds == CallIds \cup AuthOpIds

\* ---------------------------------------------------------------- values
Null == "null"
Undefined == "undefined"

\* Token pairs a server issues (bodies of ok /auth/login and /auth/refresh).
TokenPairs ==
  { [kind |-> "object", access_token |-> "a1", refresh_token |-> "r1"],
    [kind |-> "object", access_token |-> "a2", refresh_token |-> "r2"] }

Users == {"u1"}
Creds == {"cr1", "cr2"}
ApiPath == "/transactions"
ApiData == "data"
\* the lists GET /companies answers with
CompanyLists == {<<>>, <<"c1">>, <<"c2", "c1">>}
AIStatuses == {"ai1"}

\* Entities of the three entity stores; "c1b" is company 1 as the server
\* returns it after an update, and so on.
Companies == {"c1", "c2", "c1b"}
Transactions == {"t1", "t2", "t1b"}
Invoices == {"i1", "i2", "i1b"}
\* entity.id
EntityId(e) ==
  CASE e \in {"c1", "c1b", "t1", "t1b", "i1", "i1b"} -> 1
    [] e \in {"c2", "t2", "i2"} -> 2
EntityIds == {1, 2}
\* PaginatedList<T>: what GET /transactions and GET /invoices answer with
PaginatedLists(first, second) ==
  { [items |-> <<>>, total |-> 0, pages |-> 0, page |-> 1, page_size |-> 20],
    [items |-> <<first>>, total |-> 1, pages |-> 1, page |-> 1,
     page_size |-> 20],
    [items |-> <<second, first>>, total |-> 4, pages |-> 2, page |-> 2,
     page_size |-> 2] }

\* Partial<InvoiceFilters> / Partial<TransactionFilters>: the keys
\* company_id, type, page and page_size (status, date_from and date_to are
\* handled as type is); a key that is absent holds 0 or Undefined
NoFilters ==
  [company_id |-> 0, type |-> Undefined, page |-> 0, page_size |-> 0]
FilterKeys == DOMAIN NoFilters
Has(f, key) == f[key] # NoFilters[key]
\* { ...g, ...f }
Spread(g, f) == [key \in FilterKeys |-> IF Has(f, key) THEN f[key] ELSE g[key]]
\* the filters a page passes to a fetch action or to setFilters
FilterArgs ==
  { NoFilters,
    [NoFilters EXCEPT !.type = "issued"],
    [NoFilters EXCEPT !.page = 2, !.page_size = 2] }

Statuses == {200, 400, 401, 404, 500}

StatusText(status) ==
  CASE status = 200 -> "OK"
    [] status = 400 -> "Bad Request"
    [] status = 401 -> "Unauthorized"
    [] status = 404 -> "Not Found"
    [] status = 500 -> "Internal Server Error"

\* Bodies of non-ok responses: not JSON at all, the JSON value null, a JSON
\* object without detail, with an empty detail, with a detail string.
ErrBodies ==
  { [kind |-> "text"],
    [kind |-> "null"],
    [kind |-> "object", detail |-> Undefined],
    [kind |-> "object", detail |-> ""],
    [kind |-> "object", detail |-> "Invalid input"] }

\* fetch() itself rejects (the request never got an answer).
NetworkError == [status |-> 0, body |-> [kind |-> "none"]]

\* response.ok
Ok(resp) == resp.status >= 200 /\ resp.status <= 299

\* The responses the server may give, per endpoint.  Where the code never
\* reads the body of a failure (every 401 of the API client, every failure
\* of /auth/refresh and /auth/me) one body stands for all.
Unread == [kind |-> "text"]
OkData == [status |-> 200, body |-> [kind |-> "object", data |-> ApiData]]
ApiFailures ==
  [status : {404, 500}, body : ErrBodies]
    \cup {[status |-> 401, body |-> Unread], NetworkError}
DataResponses == {OkData} \cup ApiFailures
CompanyResponses ==
  [status : {200},
   body : {[kind |-> "object", data |-> l] : l \in CompanyLists}]
    \cup ApiFailures
AIStatusResponses ==
  [status : {200},
   body : {[kind |-> "object", data |-> a] : a \in AIStatuses}]
    \cup {[status |-> 500, body |-> Unread], NetworkError}
LoginResponses ==
  [status : {200}, body : TokenPairs] \cup [status : {401}, body : ErrBodies]
    \cup {NetworkError}
RegisterResponses ==
  {OkData} \cup [status : {400}, body : ErrBodies] \cup {NetworkError}
RefreshResponses ==
  [status : {200}, body : TokenPairs]
    \cup {[status |-> 401, body |-> Unread], NetworkError}
UserResponses ==
  [status : {200}, body : {[kind |-> "object", user |-> u] : u \in Users}]
    \cup [status : {401, 500}, body : {Unread}] \cup {NetworkError}

\* JavaScript truthiness of a string-or-null value.
Truthy(v) == v \notin {Null, Undefined, ""}

\* ---------------------------------------------------------------- errors
NoErr == [type |-> "none", status |-> 0, message |-> ""]
ApiError(status, message) ==
  [type |-> "ApiError", status |-> status, message |-> message]
PlainError(message) == [type |-> "Error", status |-> 0, message |-> message]
\* error.detail read on the JSON value null
TypeErrorNull ==
  [type |-> "TypeError", status |-> 0,
   message |-> "Cannot read properties of null"]
\* response.json() on a body that is not JSON
SyntaxErr ==
  [type |-> "SyntaxError", status |-> 0, message |-> "Unexpected token"]
\* fetch() rejected
FetchFailed ==
  [type |-> "TypeError", status |-> 0, message |-> "Failed to fetch"]

LoginFailedMsg == "Prihlaseni selhalo"
RegisterFailedMsg == "Registrace selhala"
UnauthorizedMsg == "Unauthorized - please log in again"

\* ---------------------------------------------------------------- stores
VARIABLES auth, authStorage, company, companyStorage, settings,
          settingsStorage, route, navFrom, ops, last, lists, started, shown

vars ==
  <<auth, authStorage, company, companyStorage, settings, settingsStorage,
    route, navFrom, ops, last, lists, started, shown>>

InitialAuth ==
  [user |-> Null, accessToken |-> Null, refreshToken |-> Null,
   isAuthenticated |-> FALSE, isLoading |-> FALSE, error |-> Null]

SetTokens(s, accessToken, refreshToken) ==
  [s EXCEPT !.accessToken = accessToken, !.refreshToken = refreshToken,
            !.isAuthenticated = TRUE]

SetUser(s, user) == [s EXCEPT !.user = user]

LogoutKeepsRefreshToken(s) ==
  [s EXCEPT !.user = Null, !.accessToken = Null,
            !.isAuthenticated = FALSE, !.error = Null]

LogoutResetsLoading(s) ==
  [s EXCEPT !.user = Null, !.accessToken = Null, !.refreshToken = Null,
            !.isAuthenticated = FALSE, !.error = Null, !.isLoading = FALSE]

Logout(s) ==
  [s EXCEPT !.user = Null, !.accessToken = Null, !.refreshToken = Null,
            !.isAuthenticated = FALSE, !.error = Null]

ClearError(s) == [s EXCEPT !.error = Null]

\* persist options of useAuthStore: the fields written to auth-storage
AuthPartializeWithUser(s) ==
  [accessToken |-> s.accessToken, refreshToken |-> s.refreshToken,
   isAuthenticated |-> s.isAuthenticated, user |-> s.user]

AuthPartialize(s) ==
  [accessToken |-> s.accessToken, refreshToken |-> s.refreshToken,
   isAuthenticated |-> s.isAuthenticated]

InitialCompany ==
  [companies |-> <<>>, currentCompany |-> Null, isLoading |-> FALSE,
   error |-> Null]

\* useTransactionStore and useInvoiceStore start alike; neither is persisted
InitialList ==
  [items |-> <<>>, total |-> 0, pages |-> 0, currentPage |-> 1,
   pageSize |-> 20, isLoading |-> FALSE, error |-> Null,
   filters |-> NoFilters]
InitialLists == [transaction |-> InitialList, invoice |-> InitialList]

\* nothing formatted yet
NoShown == [by |-> "none", arg |-> <<0, 1>>, tenths |-> 0]

\* persist options of useCompanyStore
CompanyPartialize(c) == [currentCompany |-> c.currentCompany]

\* new Date().getFullYear() when the page is loaded
ThisYear == 2026

InitialSettings ==
  [theme |-> "light", language |-> "cs", currency |-> "CZK",
   dateFormat |-> "DD.MM.YYYY", aiStatus |-> Null, useAI |-> TRUE,
   defaultTaxYear |-> ThisYear]

\* persist options of useSettingsStore
SettingsPartialize(t) ==
  [theme |-> t.theme, language |-> t.language, currency |-> t.currency,
   dateFormat |-> t.dateFormat, useAI |-> t.useAI,
   defaultTaxYear |-> t.defaultTaxYear]

\* zustand persist on page load: the stored fields laid over the initial state
Rehydrate(initial, stored) ==
  [k \in DOMAIN initial |->
     IF k \in DOMAIN stored THEN stored[k] ELSE initial[k]]

\* ---------------------------------------------------------------- routes
ProtectedPages ==
  {"/dashboard", "/transactions", "/invoices", "/tax-optimizer", "/reports",
   "/settings"}
PublicPages == {"/login", "/register"}

\* ProtectedRoute: the guard of line 24; TRUE when the children are rendered
ProtectedRouteTokenOnly(s) == Truthy(s.accessToken)

ProtectedRouteAllows(s) == ~(~s.isAuthenticated \/ ~Truthy(s.accessToken))

\* ProtectedRoute at `location`: the children, or <Navigate to="/login"
\* state={{ from: location }} replace />
ProtectedRoute(s, location, from) ==
  IF ProtectedRouteAllows(s)
    THEN [route |-> location, from |-> from]
    ELSE [route |-> "/login", from |-> location]

\* App: the route table applied to `path`, with the router state `from`
App(s, path, from) ==
  IF path \in PublicPages THEN [route |-> path, from |-> from]
  ELSE IF path \in ProtectedPages THEN ProtectedRoute(s, path, from)
  ELSE IF path = "/"
    THEN IF ProtectedRouteAllows(s)
           THEN ProtectedRoute(s, "/dashboard", Null)
           ELSE ProtectedRoute(s, "/", from)
  ELSE ProtectedRoute(s, "/dashboard", Null)

\* ------------------------------------------------------------ operations
\* One slot per operation in flight.  kind is the operation the caller
\* started, owner the store action that wraps an api call, pc the await the
\* operation is suspended at, sent the number of requests of its own it has
\* sent (the original request of an api call, GET /auth/me of fetchUser),
\* refreshes the number of POST /auth/refresh calls made on its behalf, cred
\* the credentials given to register, issued the body of the ok response
\* login got from POST /auth/login.
NoData == [kind |-> "none"]
\* For a store action: arg its first argument (an entity id, or the company
\* id of a list fetch), f the filters given to a list fetch, query the
\* query string of its request, seq its rank among the actions started.
NoQuery == [company_id |-> 0, page |-> 0, page_size |-> 0, type |-> Undefined]
IdleOp ==
  [kind |-> "none", owner |-> "none", pc |-> "idle", sent |-> 0,
   refreshes |-> 0, cred |-> Null, issued |-> NoData, arg |-> 0,
   f |-> NoFilters, query |-> NoQuery, seq |-> 0]

ApiKinds == {"get", "post", "put", "delete"}

Method(kind) ==
  CASE kind = "get" -> "GET"
    [] kind = "post" -> "POST"
    [] kind = "put" -> "PUT"
    [] kind = "delete" -> "DELETE"

Bearer(token) == "Bearer " \o token

\* getAuthHeaders: the Authorization header, Null when there is none
getAuthHeadersRefreshToken(s) ==
  IF Truthy(s.accessToken) THEN Bearer(s.refreshToken) ELSE Null

getAuthHeaders(s) ==
  IF Truthy(s.accessToken) THEN Bearer(s.accessToken) ELSE Null

\* a request handed to fetch
NoReq == [method |-> "none", path |-> "none", auth |-> Null, body |-> Null]

\* the request of api.get / api.post / api.put / api.delete
ApiRequest(s, kind, path) ==
  [method |-> Method(kind), path |-> path, auth |-> getAuthHeaders(s),
   body |-> IF kind \in {"post", "put"} THEN ApiData ELSE Null]

\* The actions of the company, transaction and invoice stores that wrap one
\* call of the API client.
CompanyOwners ==
  {"fetchCompanies", "createCompany", "updateCompany", "deleteCompany"}
TransactionOwners ==
  {"fetchTransactions", "createTransaction", "updateTransaction",
   "deleteTransaction"}
InvoiceOwners ==
  {"fetchInvoices", "createInvoice", "updateInvoice", "deleteInvoice",
   "markAsPaid"}
Owners == CompanyOwners \cup TransactionOwners \cup InvoiceOwners

OwnerStore(owner) ==
  CASE owner \in CompanyOwners -> "company"
    [] owner \in TransactionOwners -> "transaction"
    [] owner \in InvoiceOwners -> "invoice"
    [] OTHER -> "none"

\* what the action does to its list once the call resolved
OwnerVerb(owner) ==
  CASE owner \in {"fetchCompanies", "fetchTransactions", "fetchInvoices"} ->
         "fetch"
    [] owner \in {"createCompany", "createTransaction", "createInvoice"} ->
         "create"
    [] owner \in {"updateCompany", "updateTransaction", "updateInvoice",
                  "markAsPaid"} -> "update"
    [] owner \in {"deleteCompany", "deleteTransaction", "deleteInvoice"} ->
         "delete"
    [] OTHER -> "none"

\* What the last step did: the operation it belongs to (its slot before the
\* step), the request it sent, the response it consumed, how the
\* operation's promise settled in it (out, err), and how the promise of the
\* store action that awaits the operation settled (act): the catch block of
\* a fetch action ends without a throw, that of every other action throws
\* the error again.
NoResp == [status |-> 0, body |-> [kind |-> "none"]]
Step(ev, op, req, resp, out, err) ==
  [ev |-> ev, kind |-> op.kind, owner |-> op.owner, issued |-> op.issued,
   cred |-> op.cred, req |-> req, resp |-> resp, out |-> out, err |-> err,
   act |-> IF out = "rejected" /\ OwnerVerb(op.owner) = "fetch"
             THEN "resolved" ELSE out,
   val |-> "none", arg |-> op.arg, f |-> op.f, query |-> op.query,
   seq |-> op.seq]
\* the step in which refreshAccessToken resolved, with its result
Refreshed(step, val) ==
  [step EXCEPT !.val = IF val THEN "true" ELSE "false"]
Sync(ev) == Step(ev, IdleOp, NoReq, NoResp, "none", NoErr)
\* the address the user asks for
NavRequest(path) ==
  [method |-> "navigate", path |-> path, auth |-> Null, body |-> Null]

\* Every update of a store is written through to its storage key, and the
\* route guard is rendered again on the new state.
Commit(newAuth, path, from, newOps, step) ==
  /\ auth' = newAuth
  /\ authStorage' = AuthPartialize(newAuth)
  /\ LET r == App(newAuth, path, from) IN
       /\ route' = r.route
       /\ navFrom' = r.from
  /\ ops' = newOps
  /\ last' = step

CommitCompany(newCompany) ==
  /\ company' = newCompany
  /\ companyStorage' = CompanyPartialize(newCompany)

CommitSettings(newSettings) ==
  /\ settings' = newSettings
  /\ settingsStorage' = SettingsPartialize(newSettings)

SameCompany == UNCHANGED <<company, companyStorage>>
SameSettings == UNCHANGED <<settings, settingsStorage>>
\* the transaction and invoice stores, and what the pages show, untouched
SameLists == UNCHANGED <<lists, started>>
SameShown == UNCHANGED shown
SameViews == SameLists /\ SameShown
SameAuth(step) == Commit(auth, route, navFrom, ops, step)

Init ==
  /\ auth = InitialAuth
  /\ authStorage = AuthPartialize(InitialAuth)
  /\ company = InitialCompany
  /\ companyStorage = CompanyPartialize(InitialCompany)
  /\ settings = InitialSettings
  /\ settingsStorage = SettingsPartialize(InitialSettings)
  /\ route = "/login"
  /\ navFrom = Null
  /\ ops = [o \in OpIds |-> IdleOp]
  /\ last = Sync("init")
  /\ lists = InitialLists
  /\ started = 0
  /\ shown = NoShown

\* ------------------------------------------------- synchronous actions
setTokens(pair) ==
  /\ Commit(SetTokens(auth, pair.access_token, pair.refresh_token), route,
            navFrom, ops, Sync("setTokens"))
  /\ SameCompany /\ SameSettings /\ SameViews

setUser(u) ==
  /\ Commit(SetUser(auth, u), route, navFrom, ops, Sync("setUser"))
  /\ SameCompany /\ SameSettings /\ SameViews

logout ==
  /\ Commit(Logout(auth), route, navFrom, ops, Sync("logout"))
  /\ SameCompany /\ SameSettings /\ SameViews

\* handleLogout of Layout: logout() and navigate('/login')
handleLogout ==
  /\ Commit(Logout(auth), "/login", Null, ops, Sync("handleLogout"))
  /\ SameCompany /\ SameSettings /\ SameViews

clearError ==
  /\ Commit(ClearError(auth), route, navFrom, ops, Sync("clearError"))
  /\ SameCompany /\ SameSettings /\ SameViews

\* the user follows a link or types an address
Navigate(path) ==
  /\ Commit(auth, path, Null, ops,
            Step("navigate", IdleOp, NavRequest(path), NoResp, "none", NoErr))
  /\ SameCompany /\ SameSettings /\ SameViews

\* ------------------------------------------------------------ API client
\* handleResponse lines 40-43 and api.delete lines 84-85: the message of
\* the ApiError built from a non-ok response
ErrorMessageStatusText(resp) ==
  LET detail == IF resp.body.kind = "object" THEN resp.body.detail
                ELSE Undefined
  IN IF Truthy(detail) THEN detail ELSE StatusText(resp.status)

ErrorMessage(resp) ==
  LET detail == IF resp.body.kind = "text" THEN "Unknown error"
                ELSE IF resp.body.kind = "object" THEN resp.body.detail
                ELSE Undefined
  IN IF Truthy(detail) THEN detail ELSE StatusText(resp.status)

\* what the call rejects with on a non-ok response other than 401
NonOkError(resp) ==
  IF resp.body.kind = "null" THEN TypeErrorNull
  ELSE ApiError(resp.status, ErrorMessage(resp))

Unauthorized == ApiError(401, UnauthorizedMsg)

RefreshRequestAccessToken(s) ==
  [method |-> "POST", path |-> "/auth/refresh",
   auth |-> Bearer(s.accessToken), body |-> Null]

RefreshRequest(s) ==
  [method |-> "POST", path |-> "/auth/refresh",
   auth |-> Bearer(s.refreshToken), body |-> Null]

RefreshSettleKeepsSession(s, resp) ==
  IF resp # NetworkError /\ Ok(resp)
    THEN [auth |-> [s EXCEPT !.accessToken = resp.body.access_token,
                             !.refreshToken = resp.body.refresh_token],
          val |-> TRUE]
    ELSE [auth |-> s, val |-> FALSE]

\* refreshAccessToken after its fetch: the store it leaves and its result
RefreshSettle(s, resp) ==
  IF resp # NetworkError /\ Ok(resp)
    THEN [auth |-> [s EXCEPT !.accessToken = resp.body.access_token,
                             !.refreshToken = resp.body.refresh_token],
          val |-> TRUE]
    ELSE [auth |-> Logout(s), val |-> FALSE]

Settle(o) == [ops EXCEPT ![o] = IdleOp]

FetchCompaniesDoneSelectsFirst(c, companies) ==
  LET c1 == [c EXCEPT !.companies = companies, !.isLoading = FALSE] IN
  IF Len(companies) > 0
    THEN [c1 EXCEPT !.currentCompany = companies[1]]
    ELSE c1

\* fetchCompanies after api.get resolved (lines 234-239)
FetchCompaniesDone(c, companies) ==
  LET c1 == [c EXCEPT !.companies = companies, !.isLoading = FALSE] IN
  IF ~Truthy(c1.currentCompany) /\ Len(companies) > 0
    THEN [c1 EXCEPT !.currentCompany = companies[1]]
    ELSE c1

\* the catch block of fetchCompanies
FetchCompaniesFailed(c, e) ==
  [c EXCEPT !.error = e.message, !.isLoading = FALSE]

\* ----------------------------------------------------- store actions
\* the method of the API client the action calls
OwnerKind(owner) ==
  CASE owner = "markAsPaid" -> "post"
    [] OwnerVerb(owner) = "fetch" -> "get"
    [] OwnerVerb(owner) = "create" -> "post"
    [] OwnerVerb(owner) = "update" -> "put"
    [] OwnerVerb(owner) = "delete" -> "delete"

OwnerPath(owner) ==
  LET base == CASE OwnerStore(owner) = "company" -> "/companies"
                [] OwnerStore(owner) = "transaction" -> "/transactions"
                [] OwnerStore(owner) = "invoice" -> "/invoices"
  IN CASE owner = "markAsPaid" -> base \o "/:id/mark-paid"
       [] OwnerVerb(owner) \in {"update", "delete"} -> base \o "/:id"
       [] OTHER -> base

\* the entities the server answers a create and an update with
Created(store) ==
  CASE store = "company" -> "c2"
    [] store = "transaction" -> "t2"
    [] store = "invoice" -> "i2"
Updated(store) ==
  CASE store = "company" -> "c1b"
    [] store = "transaction" -> "t1b"
    [] store = "invoice" -> "i1b"
Fetched(store) ==
  CASE store = "transaction" -> "t1"
    [] store = "invoice" -> "i1"

\* the ok responses of the endpoint the action calls
OkResponses(owner) ==
  LET store == OwnerStore(owner)
      verb == OwnerVerb(owner)
      entity(e) == [status |-> 200, body |-> [kind |-> "object", data |-> e]]
  IN CASE owner = "fetchCompanies" -> {r \in CompanyResponses : r.status = 200}
       [] verb = "fetch" /\ store # "company" ->
            {entity(l) : l \in PaginatedLists(Fetched(store), Created(store))}
       [] verb = "create" -> {entity(Created(store))}
       [] verb = "update" -> {entity(Updated(store))}
       [] OTHER -> {OkData}

\* [entity, ...items]
PrependAtTail(items, e) == Append(items, e)

Prepend(items, e) == <<e>> \o items

ReplaceAll(items, id, updated) == [i \in DOMAIN items |-> updated]

\* items.map((i) => (i.id === id ? updated : i))
Replace(items, id, updated) ==
  [i \in DOMAIN items |-> IF EntityId(items[i]) = id THEN updated
                          ELSE items[i]]

\* items.filter((i) => i.id !== id)
Without(items, id) ==
  LET keep(e) == EntityId(e) # id IN SelectSeq(items, keep)

\* currentCompany?.id === id
IsCurrent(c, id) ==
  Truthy(c.currentCompany) /\ EntityId(c.currentCompany) = id

\* the company store after the api call of its action resolved
CompanyDone(op, c, data) ==
  CASE OwnerVerb(op.owner) = "fetch" -> FetchCompaniesDone(c, data)
    [] OwnerVerb(op.owner) = "create" ->
         [c EXCEPT !.companies = Append(@, data), !.currentCompany = data,
                   !.isLoading = FALSE]
    [] OwnerVerb(op.owner) = "update" ->
         [c EXCEPT !.companies = Replace(@, op.arg, data),
                   !.currentCompany =
                     IF IsCurrent(c, op.arg) THEN data ELSE @,
                   !.isLoading = FALSE]
    [] OwnerVerb(op.owner) = "delete" ->
         [c EXCEPT !.companies = Without(@, op.arg),
                   !.currentCompany =
                     IF IsCurrent(c, op.arg) THEN Null ELSE @,
                   !.isLoading = FALSE]

\* the company store after the api call of the store action settled
OwnerSettle(op, c, out, err, resp) ==
  IF OwnerStore(op.owner) = "company"
    THEN IF out = "resolved"
           THEN CompanyDone(op, c,
                            IF OwnerVerb(op.owner) = "delete" THEN Null
                            ELSE resp.body.data)
           ELSE FetchCompaniesFailed(c, err)
    ELSE c

\* the transaction or invoice store after the api call of its action
\* resolved
ListDone(op, l, data) ==
  CASE OwnerVerb(op.owner) = "fetch" ->
         [l EXCEPT !.items = data.items, !.total = data.total,
                   !.pages = data.pages, !.currentPage = data.page,
                   !.pageSize = data.page_size,
                   !.filters = [op.f EXCEPT !.company_id = op.arg],
                   !.isLoading = FALSE]
    [] OwnerVerb(op.owner) = "create" ->
         [l EXCEPT !.items = Prepend(@, data), !.total = @ + 1,
                   !.isLoading = FALSE]
    [] OwnerVerb(op.owner) = "update" ->
         [l EXCEPT !.items = Replace(@, op.arg, data), !.isLoading = FALSE]
    [] OwnerVerb(op.owner) = "delete" ->
         [l EXCEPT !.items = Without(@, op.arg), !.total = @ - 1,
                   !.isLoading = FALSE]

\* the catch block of every action of the two stores
ListFailed(l, e) == [l EXCEPT !.error = e.message, !.isLoading = FALSE]

\* the transaction and invoice stores after the api call of the store
\* action settled
ListSettle(op, ls, out, err, resp) ==
  LET store == OwnerStore(op.owner) IN
  IF store \in {"transaction", "invoice"}
    THEN [ls EXCEPT ![store] =
            IF out = "resolved"
              THEN ListDone(op, @,
                            IF OwnerVerb(op.owner) = "delete" THEN Null
                            ELSE resp.body.data)
              ELSE ListFailed(@, err)]
    ELSE ls

\* the store action continues when the call it awaits settles
OwnerCommit(op, out, err, resp) ==
  /\ CommitCompany(OwnerSettle(op, company, out, err, resp))
  /\ lists' = ListSettle(op, lists, out, err, resp)
  /\ started' = started

\* the body of an ok response is the one the endpoint serves
Fits(op, resp) ==
  (resp # NetworkError /\ Ok(resp)) => resp \in OkResponses(op.owner)

\* api.get / api.post / api.put / api.delete up to the await of fetch
ApiStart(o, kind) ==
  /\ ops[o].pc = "idle"
  /\ Commit(auth, route, navFrom,
            [ops EXCEPT ![o] = [IdleOp EXCEPT !.kind = kind,
                                              !.pc = "api_await",
                                              !.sent = 1]],
            Step("apiStart", [IdleOp EXCEPT !.kind = kind],
                 ApiRequest(auth, kind, ApiPath), NoResp, "pending", NoErr))
  /\ SameCompany /\ SameSettings /\ SameViews

\* handleResponse on the response of api.get / api.post / api.put, up to
\* the fetch inside refreshAccessToken when it gets that far
ApiResp(o, resp) ==
  /\ ops[o].pc = "api_await"
  /\ ops[o].kind \in {"get", "post", "put"}
  /\ Fits(ops[o], resp)
  /\ IF resp = NetworkError
       THEN /\ Commit(auth, route, navFrom, Settle(o),
                      Step("apiResp", ops[o], NoReq, resp, "rejected",
                           FetchFailed))
            /\ OwnerCommit(ops[o], "rejected", FetchFailed, resp)
     ELSE IF resp.status = 401
       THEN IF ~Truthy(auth.refreshToken)
              THEN /\ Commit(Logout(auth), "/login", Null, Settle(o),
                             Refreshed(Step("apiResp", ops[o], NoReq, resp,
                                            "rejected", Unauthorized), FALSE))
                   /\ OwnerCommit(ops[o], "rejected", Unauthorized, resp)
              ELSE /\ Commit(auth, route, navFrom,
                             [ops EXCEPT ![o].pc = "h_refresh",
                                         ![o].refreshes = @ + 1],
                             Step("apiResp", ops[o], RefreshRequest(auth), resp,
                                  "pending", NoErr))
                   /\ SameCompany /\ SameLists
     ELSE IF ~Ok(resp)
       THEN /\ Commit(auth, route, navFrom, Settle(o),
                      Step("apiResp", ops[o], NoReq, resp, "rejected",
                           NonOkError(resp)))
            /\ OwnerCommit(ops[o], "rejected", NonOkError(resp), resp)
     ELSE /\ Commit(auth, route, navFrom, Settle(o),
                    Step("apiResp", ops[o], NoReq, resp, "resolved", NoErr))
          /\ OwnerCommit(ops[o], "resolved", NoErr, resp)
  /\ SameSettings /\ SameShown

\* the rest of refreshAccessToken and of handleResponse (lines 33-37)
HandlerRefreshResp(o, resp) ==
  /\ ops[o].pc = "h_refresh"
  /\ LET r == RefreshSettle(auth, resp)
         step == Refreshed(Step("refreshResp", ops[o], NoReq, resp,
                                "rejected", Unauthorized), r.val)
     IN
     IF r.val
       THEN Commit(r.auth, route, navFrom, Settle(o), step)
       ELSE Commit(Logout(r.auth), "/login", Null, Settle(o), step)
  /\ OwnerCommit(ops[o], "rejected", Unauthorized, resp)
  /\ SameSettings /\ SameShown

\* api.delete after its fetch (lines 78-86), and the store action that
\* awaits it
DeleteResp(o, resp) ==
  /\ ops[o].pc = "api_await"
  /\ ops[o].kind = "delete"
  /\ Fits(ops[o], resp)
  /\ IF resp = NetworkError
       THEN /\ Commit(auth, route, navFrom, Settle(o),
                      Step("apiResp", ops[o], NoReq, resp, "rejected",
                           FetchFailed))
            /\ OwnerCommit(ops[o], "rejected", FetchFailed, resp)
     ELSE IF ~Ok(resp)
       THEN IF resp.status = 401
              THEN /\ Commit(Logout(auth), "/login", Null, Settle(o),
                             Step("apiResp", ops[o], NoReq, resp,
                                  "resolved", NoErr))
                   /\ OwnerCommit(ops[o], "resolved", NoErr, resp)
              ELSE /\ Commit(auth, route, navFrom, Settle(o),
                             Step("apiResp", ops[o], NoReq, resp,
                                  "rejected", NonOkError(resp)))
                   /\ OwnerCommit(ops[o], "rejected", NonOkError(resp),
                                  resp)
     ELSE /\ Commit(auth, route, navFrom, Settle(o),
                    Step("apiResp", ops[o], NoReq, resp, "resolved",
                         NoErr))
          /\ OwnerCommit(ops[o], "resolved", NoErr, resp)
  /\ SameSettings /\ SameShown

\* ------------------------------------------------------------- fetchUser
MeRequest(s) ==
  [method |-> "GET", path |-> "/auth/me", auth |-> Bearer(s.accessToken),
   body |-> Null]

\* fetchUser up to the await of fetch, called by the user of the store
\* (ProtectedRoute's effect): it returns at once without an access token
FetchUserStart(o) ==
  /\ ops[o].pc = "idle"
  /\ IF ~Truthy(auth.accessToken)
       THEN SameAuth(Step("fetchUserStart",
                          [IdleOp EXCEPT !.kind = "fetchUser"], NoReq,
                          NoResp, "resolved", NoErr))
       ELSE Commit(auth, route, navFrom,
                   [ops EXCEPT ![o] = [IdleOp EXCEPT !.kind = "fetchUser",
                                                     !.pc = "me_await",
                                                     !.sent = 1]],
                   Step("fetchUserStart",
                        [IdleOp EXCEPT !.kind = "fetchUser"],
                        MeRequest(auth), NoResp, "pending", NoErr))
  /\ SameCompany /\ SameSettings /\ SameViews

\* fetchUser after GET /auth/me (lines 164-180).  Whatever is thrown is
\* caught, so fetchUser resolves, and with it the login or register that
\* awaits it.
MeResp(o, resp) ==
  /\ ops[o].pc = "me_await"
  /\ (resp.status = 401 => ops[o].sent < MaxMe)
  /\ LET k == ops[o].kind IN
     IF resp # NetworkError /\ Ok(resp)
       THEN Commit(SetUser(auth, resp.body.user), route, navFrom, Settle(o),
                   Step("meResp", ops[o], NoReq, resp, "resolved", NoErr))
     ELSE IF resp.status = 401 /\ Truthy(auth.refreshToken)
       THEN Commit(auth, route, navFrom,
                   [ops EXCEPT ![o].pc = "fu_refresh",
                               ![o].refreshes = @ + 1],
                   Step("meResp", ops[o], RefreshRequest(auth), resp,
                        "pending", NoErr))
     ELSE IF resp.status = 401
       THEN Commit(auth, route, navFrom, Settle(o),
                   Refreshed(Step("meResp", ops[o], NoReq, resp, "resolved",
                                  NoErr), FALSE))
     ELSE Commit(auth, route, navFrom, Settle(o),
                 Step("meResp", ops[o], NoReq, resp, "resolved", NoErr))
  /\ SameCompany /\ SameSettings /\ SameViews

\* the rest of refreshAccessToken called by fetchUser, and lines 168-173:
\* fetchUser again when the refresh succeeded
FetchUserRefreshResp(o, resp) ==
  /\ ops[o].pc = "fu_refresh"
  /\ LET r == RefreshSettle(auth, resp)
         k == ops[o].kind
     IN
     IF r.val /\ Truthy(r.auth.accessToken)
       THEN Commit(r.auth, route, navFrom,
                   [ops EXCEPT ![o].pc = "me_await", ![o].sent = @ + 1],
                   Refreshed(Step("refreshResp", ops[o], MeRequest(r.auth),
                                  resp, "pending", NoErr), r.val))
       ELSE Commit(r.auth, route, navFrom, Settle(o),
                   Refreshed(Step("refreshResp", ops[o], NoReq, resp,
                                  "resolved", NoErr), r.val))
  /\ SameCompany /\ SameSettings /\ SameViews

\* ---------------------------------------------------- refreshAccessToken
\* refreshAccessToken called by a user of the store, up to its fetch: it
\* returns false at once when the store holds no refresh token
RefreshStart(o) ==
  /\ ops[o].pc = "idle"
  /\ LET op == [IdleOp EXCEPT !.kind = "refresh"] IN
     IF ~Truthy(auth.refreshToken)
       THEN SameAuth(Refreshed(Step("refreshStart", op, NoReq, NoResp,
                                    "resolved", NoErr), FALSE))
       ELSE Commit(auth, route, navFrom,
                   [ops EXCEPT ![o] = [op EXCEPT !.pc = "rt_await",
                                                 !.refreshes = 1]],
                   Step("refreshStart", op, RefreshRequest(auth), NoResp,
                        "pending", NoErr))
  /\ SameCompany /\ SameSettings /\ SameViews

\* the rest of that call, after POST /auth/refresh
RefreshResp(o, resp) ==
  /\ ops[o].pc = "rt_await"
  /\ LET r == RefreshSettle(auth, resp) IN
       Commit(r.auth, route, navFrom, Settle(o),
              Refreshed(Step("refreshResp", ops[o], NoReq, resp, "resolved",
                             NoErr), r.val))
  /\ SameCompany /\ SameSettings /\ SameViews

\* ----------------------------------------------------------------- login
LoginRequest(cred) ==
  [method |-> "POST", path |-> "/auth/login", auth |-> Null, body |-> cred]

RegisterRequest(cred) ==
  [method |-> "POST", path |-> "/auth/register", auth |-> Null,
   body |-> cred]

\* set({ isLoading: true, error: null }) of login and of register
Loading(s) == [s EXCEPT !.isLoading = TRUE, !.error = Null]

\* the catch blocks of login and register
Failed(s, e) == [s EXCEPT !.isLoading = FALSE, !.error = e.message]

\* what the try block of login / register throws on a response that is not
\* ok: response.json() fails on a body that is not JSON, error.detail on
\* null, and otherwise Error(error.detail || fallback)
ThrownOnFailureFallback(resp, fallback) == PlainError(fallback)

ThrownOnFailure(resp, fallback) ==
  IF resp = NetworkError THEN FetchFailed
  ELSE IF resp.body.kind = "text" THEN SyntaxErr
  ELSE IF resp.body.kind = "null" THEN TypeErrorNull
  ELSE PlainError(IF Truthy(resp.body.detail) THEN resp.body.detail
                  ELSE fallback)

\* the store after an ok response of POST /auth/login (lines 70-76)
LoggedInStillLoading(s, data) ==
  [s EXCEPT !.accessToken = data.access_token,
            !.refreshToken = data.refresh_token,
            !.isAuthenticated = TRUE]

LoggedIn(s, data) ==
  [s EXCEPT !.accessToken = data.access_token,
            !.refreshToken = data.refresh_token,
            !.isAuthenticated = TRUE,
            !.isLoading = FALSE]

LoginStart(o, cred) ==
  /\ ops[o].pc = "idle"
  /\ Commit(Loading(auth), route, navFrom,
            [ops EXCEPT ![o] = [IdleOp EXCEPT !.kind = "login",
                                              !.pc = "li_await"]],
            Step("loginStart", [IdleOp EXCEPT !.kind = "login"],
                 LoginRequest(cred), NoResp, "pending", NoErr))
  /\ SameCompany /\ SameSettings /\ SameViews

\* login after POST /auth/login, up to the fetch of the fetchUser it awaits;
\* a failure passes through the catch of login and, under register, the
\* catch of register as well
LoginResp(o, resp) ==
  /\ ops[o].pc = "li_await"
  /\ LET k == ops[o].kind IN
     IF resp # NetworkError /\ Ok(resp)
       THEN LET s1 == LoggedIn(auth, resp.body) IN
            IF ~Truthy(s1.accessToken)
              THEN Commit(s1, route, navFrom, Settle(o),
                          Step("loginResp", ops[o], NoReq, resp,
                               "resolved", NoErr))
              ELSE Commit(s1, route, navFrom,
                          [ops EXCEPT ![o].pc = "me_await", ![o].sent = 1,
                                      ![o].cred = Null,
                                      ![o].issued = resp.body],
                          Step("loginResp", ops[o], MeRequest(s1), resp,
                               "pending", NoErr))
       ELSE LET e == ThrownOnFailure(resp, LoginFailedMsg)
                s1 == Failed(auth, e)
            IN Commit(IF k = "register" THEN Failed(s1, e) ELSE s1, route,
                      navFrom, Settle(o),
                      Step("loginResp", ops[o], NoReq, resp, "rejected",
                           e))
  /\ SameCompany /\ SameSettings /\ SameViews

RegisterStart(o, cred) ==
  /\ ops[o].pc = "idle"
  /\ Commit(Loading(auth), route, navFrom,
            [ops EXCEPT ![o] = [IdleOp EXCEPT !.kind = "register",
                                              !.pc = "rg_await",
                                              !.cred = cred]],
            Step("registerStart",
                 [IdleOp EXCEPT !.kind = "register", !.cred = cred],
                 RegisterRequest(cred), NoResp, "pending", NoErr))
  /\ SameCompany /\ SameSettings /\ SameViews

\* the credentials register hands to login (line 104)
AutoLoginCredOther(cred) == CHOOSE c \in Creds : c # cred

AutoLoginCred(cred) == cred

\* register after POST /auth/register, up to the fetch of the login it awaits
RegisterResp(o, resp) ==
  /\ ops[o].pc = "rg_await"
  /\ IF resp # NetworkError /\ Ok(resp)
       THEN Commit(Loading(auth), route, navFrom,
                   [ops EXCEPT ![o].pc = "li_await"],
                   Step("registerResp", ops[o],
                        LoginRequest(AutoLoginCred(ops[o].cred)), resp,
                        "pending", NoErr))
       ELSE LET e == ThrownOnFailure(resp, RegisterFailedMsg) IN
            Commit(Failed(auth, e), route, navFrom, Settle(o),
                   Step("registerResp", ops[o], NoReq, resp,
                        "rejected", e))
  /\ SameCompany /\ SameSettings /\ SameViews

\* --------------------------------------------------------- company store
setCurrentCompany(c) ==
  /\ CommitCompany([company EXCEPT !.currentCompany = c])
  /\ SameAuth(Sync("setCurrentCompany"))
  /\ SameSettings /\ SameViews

\* fetchCompanies up to the await of fetch inside api.get (lines 231-233)
FetchCompaniesStart(o) ==
  /\ ops[o].pc = "idle"
  /\ CommitCompany([company EXCEPT !.isLoading = TRUE, !.error = Null])
  /\ Commit(auth, route, navFrom,
            [ops EXCEPT ![o] = [IdleOp EXCEPT !.kind = "get",
                                              !.owner = "fetchCompanies",
                                              !.pc = "api_await",
                                              !.sent = 1]],
            Step("apiStart",
                 [IdleOp EXCEPT !.kind = "get", !.owner = "fetchCompanies"],
                 ApiRequest(auth, "get", "/companies"), NoResp, "pending",
                 NoErr))
  /\ SameSettings /\ SameViews

\* A create, update, delete, markAsPaid or list-fetch action of one of the
\* three stores up to the await of fetch inside the API client: it sets
\* isLoading and clears error, then calls api.get / post / put / delete.
\* id is the entity the action is about.
StoreLoading(st) == [st EXCEPT !.isLoading = TRUE, !.error = Null]

ListQueryStoredPage(l, companyId, f) ==
  [company_id |-> companyId, page |-> l.currentPage,
   page_size |-> l.pageSize,
   type |-> IF Truthy(f.type) THEN f.type ELSE Undefined]

\* the query string of fetchInvoices / fetchTransactions (lines 53-63)
ListQuery(l, companyId, f) ==
  [company_id |-> companyId,
   page |-> IF f.page # 0 THEN f.page ELSE l.currentPage,
   page_size |-> IF f.page_size # 0 THEN f.page_size ELSE l.pageSize,
   type |-> IF Truthy(f.type) THEN f.type ELSE Undefined]

StoreCall(o, owner, id, f) ==
  /\ ops[o].pc = "idle"
  /\ started < MaxActions
  /\ started' = started + 1
  /\ IF OwnerStore(owner) = "company"
       THEN /\ CommitCompany(StoreLoading(company))
            /\ lists' = lists
       ELSE /\ lists' = [lists EXCEPT ![OwnerStore(owner)] = StoreLoading(@)]
            /\ SameCompany
  /\ LET op == [IdleOp EXCEPT
                  !.kind = OwnerKind(owner), !.owner = owner, !.arg = id,
                  !.f = f, !.seq = started + 1,
                  !.query =
                    IF OwnerVerb(owner) = "fetch"
                         /\ OwnerStore(owner) # "company"
                      THEN ListQuery(lists[OwnerStore(owner)], id, f)
                      ELSE NoQuery]
     IN Commit(auth, route, navFrom,
               [ops EXCEPT ![o] = [op EXCEPT !.pc = "api_await", !.sent = 1]],
               Step("apiStart", op,
                    ApiRequest(auth, OwnerKind(owner), OwnerPath(owner)),
                    NoResp, "pending", NoErr))
  /\ SameSettings /\ SameShown

\* an action called without filters
StoreStart(o, owner, id) == StoreCall(o, owner, id, NoFilters)

\* setFilters and setPage of the transaction and invoice stores
setFilters(store, f) ==
  /\ started < MaxActions
  /\ lists' = [lists EXCEPT ![store].filters = Spread(@, f)]
  /\ started' = started + 1
  /\ SameAuth(Sync("setFilters"))
  /\ SameCompany /\ SameSettings /\ SameShown

setPage(store, page) ==
  /\ started < MaxActions
  /\ lists' = [lists EXCEPT ![store].currentPage = page]
  /\ started' = started + 1
  /\ SameAuth(Sync("setPage"))
  /\ SameCompany /\ SameSettings /\ SameShown

\* -------------------------------------------------------- settings store
SetSetting(field, value) ==
  /\ CommitSettings([settings EXCEPT ![field] = value])
  /\ SameViews
  /\ SameAuth(Sync("setSetting"))
  /\ SameCompany

setTheme(theme) == SetSetting("theme", theme)
setLanguage(language) == SetSetting("language", language)
setCurrency(currency) == SetSetting("currency", currency)
setDateFormat(dateFormat) == SetSetting("dateFormat", dateFormat)
setUseAI(useAI) == SetSetting("useAI", useAI)
setDefaultTaxYear(year) == SetSetting("defaultTaxYear", year)

AIStatusRequest ==
  [method |-> "GET", path |-> "/ai/status", auth |-> Null, body |-> Null]

FetchAIStatusStart(o) ==
  /\ ops[o].pc = "idle"
  /\ Commit(auth, route, navFrom,
            [ops EXCEPT ![o] = [IdleOp EXCEPT !.kind = "fetchAIStatus",
                                              !.pc = "ai_await"]],
            Step("fetchAIStatusStart",
                 [IdleOp EXCEPT !.kind = "fetchAIStatus"], AIStatusRequest,
                 NoResp, "pending", NoErr))
  /\ SameCompany /\ SameSettings /\ SameViews

\* fetchAIStatus after its fetch (lines 66-72): a failure changes nothing
FetchAIStatusResp(o, resp) ==
  /\ ops[o].pc = "ai_await"
  /\ Commit(auth, route, navFrom, Settle(o),
            Step("fetchAIStatusResp", ops[o], NoReq, resp, "resolved",
                 NoErr))
  /\ IF resp # NetworkError /\ Ok(resp)
       THEN CommitSettings([settings EXCEPT !.aiStatus = resp.body.data])
       ELSE SameSettings
  /\ SameCompany /\ SameViews

\* ---------------------------------------------------------------- reload
\* The page is loaded again: what was in flight is gone and each store is
\* built from its initial state and its storage key.
Reload ==
  /\ Commit(Rehydrate(InitialAuth, authStorage), route, navFrom,
            [o \in OpIds |-> IdleOp], Sync("reload"))
  /\ CommitCompany(Rehydrate(InitialCompany, companyStorage))
  /\ CommitSettings(Rehydrate(InitialSettings, settingsStorage))
  /\ lists' = InitialLists
  /\ started' = 0
  /\ shown' = NoShown

\* ------------------------------------------------------------ formatters
\* A number is a fraction <<numerator, denominator>> with a positive
\* denominator, so that dividing and multiplying lose nothing.
Abs(n) == IF n < 0 THEN -n ELSE n
Over(x, k) == <<x[1], x[2] * k>>
Times(x, k) == <<x[1] * k, x[2]>>
MathAbs(x) == <<Abs(x[1]), x[2]>>

\* n / d rounded to the nearest integer, halves away from zero (the
\* rounding mode Intl.NumberFormat starts with)
RoundHalfExpand(n, d) ==
  IF n >= 0 THEN (2 * n + d) \div (2 * d) ELSE -((2 * (-n) + d) \div (2 * d))

\* Intl.NumberFormat with style 'percent' and exactly one fraction digit:
\* the number times 100, rounded to tenths; the result is the count of
\* tenths of a percent in the text, 125 for "12,5 %"
PercentStyle(x) == RoundHalfExpand(x[1] * 1000, x[2])

formatPercentUndivided(value) == PercentStyle(value)

formatPercent(value) == PercentStyle(Over(value, 100))

SameStores ==
  UNCHANGED <<auth, authStorage, company, companyStorage, settings,
              settingsStorage, route, navFrom, ops, last, lists, started>>

\* formatPercent called with the number at hand
FormatPercent ==
  /\ shown' = [shown EXCEPT !.by = "formatPercent",
                            !.tenths = formatPercent(shown.arg)]
  /\ SameStores

\* Dashboard shows the growth of the income
DashboardGrowth ==
  /\ shown.arg[1] # 0
  /\ shown' = [shown EXCEPT !.by = "Dashboard",
                            !.tenths = formatPercent(MathAbs(shown.arg))]
  /\ SameStores

\* TaxOptimizer shows an effective rate, which the server sends as a
\* fraction
TaxOptimizerRate ==
  /\ shown' = [shown EXCEPT !.by = "TaxOptimizer",
                            !.tenths = formatPercent(Times(shown.arg, 100))]
  /\ SameStores

\* ----------------------------------------------------------------- specs
\* the synchronous actions of the auth store
NextStore ==
  \/ \E pair \in TokenPairs : setTokens(pair)
  \/ \E u \in Users : setUser(u)
  \/ logout
  \/ clearError

\* the user moves between the login page and the dashboard, or reloads
NextPage ==
  \/ \E path \in {"/login", "/dashboard"} : Navigate(path)
  \/ Reload

\* the API client: calls of api.get, api.post, api.put and api.delete
NextApi(ids) ==
  \/ \E o \in ids, kind \in ApiKinds : ApiStart(o, kind)
  \/ \E o \in ids, resp \in DataResponses : ApiResp(o, resp)
  \/ \E o \in ids, resp \in RefreshResponses : HandlerRefreshResp(o, resp)
  \/ \E o \in ids, resp \in DataResponses : DeleteResp(o, resp)

\* the asynchronous actions of the auth store
NextAuth ==
  \/ \E o \in AuthOpIds : FetchUserStart(o)
  \/ \E o \in AuthOpIds, resp \in UserResponses : MeResp(o, resp)
  \/ \E o \in AuthOpIds, resp \in RefreshResponses :
       FetchUserRefreshResp(o, resp)
  \/ \E o \in AuthOpIds, cred \in Creds : LoginStart(o, cred)
  \/ \E o \in AuthOpIds, resp \in LoginResponses : LoginResp(o, resp)
  \/ \E o \in AuthOpIds, cred \in Creds : RegisterStart(o, cred)
  \/ \E o \in AuthOpIds, resp \in RegisterResponses : RegisterResp(o, resp)

\* Spec: login, register and fetchUser, called by a user who leaves the
\* store alone while they run.
Spec == Init /\ [][NextPage \/ NextAuth]_vars

\* SpecApi: the API client, with the synchronous store actions running
\* between its requests and their responses.
SpecApi == Init /\ [][NextStore \/ NextPage \/ NextApi(CallIds)]_vars

\* SpecRoute and SpecPersist run one request at a time.
FirstOp == CHOOSE o \in OpIds : \A p \in OpIds : o <= p

\* SpecRoute: the user visits every address while the store is changed by
\* its synchronous actions and by a call of the API client.
NavTargets == ProtectedPages \cup PublicPages \cup {"/", "/nowhere"}
NextVisit == \E path \in NavTargets : Navigate(path)
SpecRoute ==
  Init /\ [][NextStore \/ NextVisit \/ Reload \/ NextApi({FirstOp})]_vars

\* SpecPersist: the three persisted stores, every field of each driven away
\* from its initial value, and the page reloaded at any moment. The server
\* answers each request with a success or with an outright failure, and no
\* access token expires.
PersistFailure ==
  [status |-> 500, body |-> [kind |-> "object", detail |-> "Invalid input"]]
PersistLoginResponses ==
  {r \in LoginResponses : /\ r # NetworkError
                          /\ r.body.kind = "object"
                          /\ Ok(r) => r.body.access_token = "a2"
                          /\ ~Ok(r) => Truthy(r.body.detail)}
PersistUserResponses == {r \in UserResponses : r.status \in {200, 500}}
PersistCompanyResponses ==
  {r \in CompanyResponses : r # NetworkError /\ Ok(r) /\ r.body.data # <<>>}
    \cup {PersistFailure}

NextPersistAuth ==
  \/ setTokens(CHOOSE pair \in TokenPairs : pair.access_token = "a1")
  \/ \E u \in Users : setUser(u)
  \/ LoginStart(FirstOp, "cr1")
  \/ \E resp \in PersistLoginResponses : LoginResp(FirstOp, resp)
  \/ \E resp \in PersistUserResponses : MeResp(FirstOp, resp)

NextPersistCompany ==
  \/ \E c \in {Null, "c1"} : setCurrentCompany(c)
  \/ FetchCompaniesStart(FirstOp)
  \/ \E resp \in PersistCompanyResponses : ApiResp(FirstOp, resp)

NextPersistSettings ==
  \/ setTheme("dark")
  \/ setLanguage("en")
  \/ setCurrency("EUR")
  \/ setDateFormat("YYYY-MM-DD")
  \/ setUseAI(FALSE)
  \/ setDefaultTaxYear(ThisYear - 1)
  \/ FetchAIStatusStart(FirstOp)
  \/ \E resp \in AIStatusResponses : FetchAIStatusResp(FirstOp, resp)

SpecPersist ==
  Init /\ [][NextPersistAuth \/ NextPersistCompany \/ NextPersistSettings
               \/ Reload]_vars

\* SpecEntity: the company, transaction and invoice stores, one action at
\* a time, by a user who holds tokens or none. The server answers each
\* request with a success, an outright failure, a 401 or not at all.
EntityOwners == Owners \ {"fetchCompanies"}
EntityFailures ==
  {PersistFailure, [status |-> 401, body |-> Unread], NetworkError}
NextEntity ==
  \/ setTokens(CHOOSE pair \in TokenPairs : pair.access_token = "a1")
  \/ FetchCompaniesStart(FirstOp)
  \/ \E owner \in EntityOwners, id \in EntityIds :
       /\ OwnerVerb(owner) \in {"fetch", "create"} => id = 1
       /\ StoreStart(FirstOp, owner, id)
  \/ \E resp \in EntityFailures \cup OkResponses(ops[FirstOp].owner) :
       ApiResp(FirstOp, resp)
  \/ \E resp \in RefreshResponses : HandlerRefreshResp(FirstOp, resp)
  \/ \E resp \in EntityFailures \cup {OkData} : DeleteResp(FirstOp, resp)
SpecEntity == Init /\ [][NextEntity]_vars

\* SpecFormat: the formatter, given any number of the bounded range
PercentArgs == {<<n, 10000>> : n \in -MaxArg .. MaxArg}
InitFormat ==
  /\ auth = InitialAuth
  /\ authStorage = AuthPartialize(InitialAuth)
  /\ company = InitialCompany
  /\ companyStorage = CompanyPartialize(InitialCompany)
  /\ settings = InitialSettings
  /\ settingsStorage = SettingsPartialize(InitialSettings)
  /\ route = "/dashboard"
  /\ navFrom = Null
  /\ ops = [o \in OpIds |-> IdleOp]
  /\ last = Sync("init")
  /\ lists = InitialLists
  /\ started = 0
  /\ shown \in {[by |-> "none", arg |-> x, tenths |-> 0] : x \in PercentArgs}
NextFormat == FormatPercent \/ DashboardGrowth \/ TaxOptimizerRate
SpecFormat == InitFormat /\ [][NextFormat]_vars

\* SpecRace: refreshAccessToken and fetchUser in flight while the
\* synchronous actions of the store run
NextRefresh ==
  \/ \E o \in AuthOpIds : RefreshStart(o)
  \/ \E o \in AuthOpIds, resp \in RefreshResponses : RefreshResp(o, resp)
  \/ \E o \in AuthOpIds : FetchUserStart(o)
  \/ \E o \in AuthOpIds, resp \in UserResponses : MeResp(o, resp)
  \/ \E o \in AuthOpIds, resp \in RefreshResponses :
       FetchUserRefreshResp(o, resp)
SpecRace == Init /\ [][NextStore \/ NextRefresh]_vars

\* SpecLogout: the user logs out, by logout() or by the button of Layout,
\* at any moment of a session in which a login may be in flight and the
\* company and settings stores have been changed.
NextLogout ==
  \/ logout
  \/ handleLogout
  \/ setTokens(CHOOSE pair \in TokenPairs : pair.access_token = "a1")
  \/ \E u \in Users : setUser(u)
  \/ LoginStart(FirstOp, "cr1")
  \/ \E resp \in PersistLoginResponses : LoginResp(FirstOp, resp)
  \/ \E resp \in PersistUserResponses : MeResp(FirstOp, resp)
  \/ \E c \in {Null, "c1"} : setCurrentCompany(c)
  \/ FetchCompaniesStart(FirstOp)
  \/ \E resp \in PersistCompanyResponses : ApiResp(FirstOp, resp)
  \/ setTheme("dark")
  \/ setUseAI(FALSE)
SpecLogout == Init /\ [][NextLogout]_vars

\* SpecList: the transaction and invoice stores, one action at a time, the
\* pages setting filters and the page number in between.  The server
\* answers each request with a success or with an outright failure.
ListOwners == TransactionOwners \cup InvoiceOwners
ListFailures == {PersistFailure, NetworkError}
NextList ==
  \/ \E store \in {"transaction", "invoice"}, f \in FilterArgs \ {NoFilters} :
       setFilters(store, f)
  \/ \E store \in {"transaction", "invoice"} : setPage(store, 2)
  \/ \E owner \in ListOwners, id \in EntityIds, f \in FilterArgs :
       /\ OwnerVerb(owner) = "create" => id = 1
       /\ OwnerVerb(owner) # "fetch" => f = NoFilters
       /\ StoreCall(FirstOp, owner, id, f)
  \/ \E resp \in ListFailures \cup OkResponses(ops[FirstOp].owner) :
       ApiResp(FirstOp, resp)
  \/ \E resp \in ListFailures \cup {OkData} : DeleteResp(FirstOp, resp)
SpecList == Init /\ [][NextList]_vars

\* SpecOverlap: actions of the three stores called while others are in
\* flight; the server answers each request with a success or with an
\* outright failure, in any order.
OverlapOwners ==
  {"fetchCompanies", "createCompany", "fetchTransactions", "fetchInvoices",
   "createInvoice"}
NextOverlap ==
  \/ \E o \in CallIds, owner \in OverlapOwners, f \in FilterArgs :
       /\ OwnerVerb(owner) # "fetch" \/ owner = "fetchCompanies"
            => f = NoFilters
       /\ StoreCall(o, owner, 1, f)
  \/ \E o \in CallIds :
       \E resp \in ListFailures \cup OkResponses(ops[o].owner) :
         ApiResp(o, resp)
SpecOverlap == Init /\ [][NextOverlap]_vars

\* SpecCompany: the company list is fetched, as Dashboard does when it
\* mounts, with any company or none selected, between the other actions of
\* the company store, and the page is reloaded at any moment.
NextCompany ==
  \/ \E c \in {Null, "c1", "c2"} : setCurrentCompany(c)
  \/ FetchCompaniesStart(FirstOp)
  \/ \E owner \in CompanyOwners \ {"fetchCompanies"}, id \in EntityIds :
       /\ OwnerVerb(owner) = "create" => id = 1
       /\ StoreStart(FirstOp, owner, id)
  \/ \E resp \in ListFailures \cup OkResponses(ops[FirstOp].owner) :
       ApiResp(FirstOp, resp)
  \/ \E resp \in ListFailures \cup {OkData} : DeleteResp(FirstOp, resp)
  \/ Reload
SpecCompany == Init /\ [][NextCompany]_vars

\* ---------------------------------------------------------------- claims
HandlerKinds == {"get", "post", "put"}

\* C1: every 401 received by a call of the API client triggers exactly one
\* POST /auth/refresh: the step that consumes the 401 sends that request.
\* Stated for the calls answered while a refresh token is stored, where a
\* refresh request can be sent at all.
C1_RefreshOncePer401 ==
  [][(/\ last'.ev = "apiResp"
      /\ last'.resp.status = 401
      /\ auth.refreshToken # Null) =>
       last'.req.path = "/auth/refresh"]_vars

\* C2: when the refresh after a 401 succeeds, the original request is sent
\* again with the new access token and the caller does not get the
\* Unauthorized error.
C2_ReplayAfterRefresh ==
  (last.ev = "refreshResp" /\ last.kind \in ApiKinds /\ Ok(last.resp)) =>
    /\ last.req.method = Method(last.kind)
    /\ last.req.path = ApiPath
    /\ last.req.auth = Bearer(auth.accessToken)
    /\ last.err # Unauthorized

\* C3: when a call of the API client got 401 and the refresh failed (no
\* refresh token stored, a response that is not ok, a network error), the
\* tokens are null, isAuthenticated is false and the location is /login.
C3_FailedRefreshLogsOut ==
  LET noToken == /\ last.ev = "apiResp"
                 /\ last.kind \in HandlerKinds
                 /\ last.resp.status = 401
                 /\ last.out = "rejected"
      failed == /\ last.ev = "refreshResp"
                /\ last.kind \in ApiKinds
                /\ ~Ok(last.resp)
  IN (noToken \/ failed) =>
       /\ auth.accessToken = Null
       /\ auth.refreshToken = Null
       /\ ~auth.isAuthenticated
       /\ route = "/login"

C3_Witness ==
  /\ last.ev = "refreshResp"
  /\ last.kind \in ApiKinds
  /\ last.resp.status = 401
  /\ auth.accessToken = Null
  /\ route = "/login"

NonOk(step) ==
  /\ step.ev = "apiResp"
  /\ step.resp # NetworkError
  /\ ~Ok(step.resp)
  /\ step.resp.status # 401

\* C4 as stated: a non-2xx response other than 401 rejects with an ApiError
\* of the response's status whose message is the body's detail when the
\* body carries one and the status text in every other case.
C4_DetailElseStatusText ==
  NonOk(last) =>
    /\ last.out = "rejected"
    /\ LET b == last.resp.body IN
       last.err =
         ApiError(last.resp.status,
                  IF b.kind = "object" /\ b.detail # Undefined THEN b.detail
                  ELSE StatusText(last.resp.status))

\* C4 as amended: the message is the detail when the body is a JSON object
\* with a non-empty detail, "Unknown error" when the body is not JSON, the
\* status text when the body is JSON without a detail or with an empty one;
\* on the JSON value null the call rejects with a TypeError.
C4_ErrorMessage ==
  NonOk(last) =>
    /\ last.out = "rejected"
    /\ LET b == last.resp.body
           status == last.resp.status
       IN
       CASE b.kind = "null" -> last.err.type = "TypeError"
         [] b.kind = "text" -> last.err = ApiError(status, "Unknown error")
         [] b.kind = "object" ->
              last.err =
                ApiError(status,
                         IF b.detail \notin {Undefined, ""} THEN b.detail
                         ELSE StatusText(status))

C4_Witness ==
  /\ NonOk(last)
  /\ last.resp.status = 404
  /\ last.resp.body.kind = "text"
  /\ last.err.message = "Unknown error"

\* C5: a request of the API client carries Authorization: Bearer <token>
\* with the access token stored when it is sent, and no Authorization
\* header when none is stored.
C5_BearerHeader ==
  last.ev = "apiStart" =>
    last.req.auth =
      IF auth.accessToken # Null THEN "Bearer " \o auth.accessToken ELSE Null

C5_Witness ==
  /\ last.ev = "apiStart"
  /\ auth.accessToken # Null
  /\ last.req.auth # Null

\* C6: a reload keeps exactly the allow-listed fields of each store (auth:
\* accessToken, refreshToken, isAuthenticated; company: currentCompany;
\* settings: theme, language, currency, dateFormat, useAI, defaultTaxYear)
\* and every other field starts from its initial value.
C6_ReloadKeepsAllowList ==
  [][last'.ev = "reload" =>
       /\ auth'.accessToken = auth.accessToken
       /\ auth'.refreshToken = auth.refreshToken
       /\ auth'.isAuthenticated = auth.isAuthenticated
       /\ auth'.user = Null
       /\ auth'.isLoading = FALSE
       /\ auth'.error = Null
       /\ company'.currentCompany = company.currentCompany
       /\ company'.companies = <<>>
       /\ company'.isLoading = FALSE
       /\ company'.error = Null
       /\ \A f \in {"theme", "language", "currency", "dateFormat", "useAI",
                    "defaultTaxYear"} : settings'[f] = settings[f]
       /\ settings'.aiStatus = Null
    ]_vars

C6_Witness ==
  /\ last.ev = "reload"
  /\ auth.accessToken = "a2"
  /\ auth.isAuthenticated
  /\ company.currentCompany = "c1"
  /\ settings.theme = "dark"
  /\ settings.useAI = FALSE
  /\ settings.defaultTaxYear # ThisYear

\* C7: a protected page is on screen only while isAuthenticated is true and
\* accessToken is not null; asking for one in any other state ends on
\* /login, which is handed the address that was asked for.
C7_ProtectedPagesGuarded ==
  LET allowed == auth.isAuthenticated /\ auth.accessToken # Null IN
  /\ route \in ProtectedPages => allowed
  /\ (/\ last.ev = "navigate"
      /\ last.req.path \in ProtectedPages
      /\ ~allowed) =>
       route = "/login" /\ navFrom = last.req.path

C7_Witness ==
  /\ last.ev = "navigate"
  /\ last.req.path = "/settings"
  /\ auth.accessToken # Null
  /\ ~auth.isAuthenticated
  /\ route = "/login"
  /\ navFrom = "/settings"

\* C8: no operation makes more than one refresh call or sends its own
\* request more than twice.
C8_SingleRefreshAndReplay ==
  \A o \in OpIds : ops[o].refreshes <= 1 /\ ops[o].sent <= 2

\* C9 as stated: when login() resolves after an ok POST /auth/login, the
\* tokens are those of the response, isAuthenticated is true, isLoading is
\* false and error is null.
C9_LoginResolvesLoggedIn ==
  (last.kind = "login" /\ last.out = "resolved"
     /\ last.issued.kind = "object") =>
    /\ auth.accessToken = last.issued.access_token
    /\ auth.refreshToken = last.issued.refresh_token
    /\ auth.isAuthenticated
    /\ ~auth.isLoading
    /\ auth.error = Null

\* C9 as amended: on an ok response of POST /auth/login, login() stores the
\* tokens of the response, sets isAuthenticated true and isLoading false and
\* leaves error as it was; from then on it does not reject and does not
\* touch isLoading. The user fetch leaves the tokens and isAuthenticated
\* alone unless it runs a refresh: a refresh that succeeds replaces the
\* tokens by those of its response, one that fails logs the session out.
C9_LoginResponseStored ==
  [][/\ (last'.ev = "loginResp" /\ Ok(last'.resp)) =>
          /\ auth'.accessToken = last'.resp.body.access_token
          /\ auth'.refreshToken = last'.resp.body.refresh_token
          /\ auth'.isAuthenticated
          /\ ~auth'.isLoading
          /\ auth'.error = auth.error
          /\ last'.out # "rejected"
     /\ (last'.issued # NoData) =>
          /\ last'.out = "resolved" \/ last'.out = "pending"
          /\ auth'.isLoading = auth.isLoading
          /\ last'.ev = "meResp" =>
               /\ auth'.accessToken = auth.accessToken
               /\ auth'.refreshToken = auth.refreshToken
               /\ auth'.isAuthenticated = auth.isAuthenticated
          /\ (last'.ev = "refreshResp" /\ Ok(last'.resp)) =>
               /\ auth'.accessToken = last'.resp.body.access_token
               /\ auth'.refreshToken = last'.resp.body.refresh_token
               /\ auth'.isAuthenticated = auth.isAuthenticated
          /\ (last'.ev = "refreshResp" /\ ~Ok(last'.resp)) =>
               /\ auth'.accessToken = Null
               /\ auth'.refreshToken = Null
               /\ ~auth'.isAuthenticated
    ]_vars

C9_Witness ==
  /\ last.kind = "login"
  /\ last.out = "resolved"
  /\ last.ev = "meResp"
  /\ last.resp.status = 500
  /\ auth.user = Null
  /\ auth.accessToken = last.issued.access_token

RegisterSettled(out) == last.kind = "register" /\ last.out = out

StoreView(owner, c, ls) ==
  IF OwnerStore(owner) = "company"
    THEN [items |-> c.companies, total |-> 0, current |-> c.currentCompany,
          isLoading |-> c.isLoading, error |-> c.error]
    ELSE [items |-> ls[OwnerStore(owner)].items,
          total |-> ls[OwnerStore(owner)].total, current |-> Null,
          isLoading |-> ls[OwnerStore(owner)].isLoading,
          error |-> ls[OwnerStore(owner)].error]

\* the step in which the request of a store action is known to have failed
RequestFailed(step) ==
  /\ step.owner \in Owners
  /\ step.ev \in {"apiResp", "refreshResp"}
  /\ step.out # "pending"
  /\ step.ev = "apiResp" => (step.resp = NetworkError \/ ~Ok(step.resp))

\* C11: when the request of an action of the company, transaction or
\* invoice store fails, the store's list, total and selection are unchanged,
\* error is the failure's message and isLoading is false; a create, update,
\* delete or markAsPaid action rejects with that error, a fetch action
\* resolves.
C11_FailedActionKeepsStore ==
  [][RequestFailed(last') =>
       LET before == StoreView(last'.owner, company, lists)
           after == StoreView(last'.owner, company', lists')
       IN /\ after.items = before.items
          /\ after.total = before.total
          /\ after.current = before.current
          /\ after.error = last'.err.message
          /\ ~after.isLoading
          /\ last'.act = IF OwnerVerb(last'.owner) = "fetch" THEN "resolved"
                         ELSE "rejected"
    ]_vars


\* C17: deleteCompany, deleteTransaction and deleteInvoice leave the local
\* list and total unchanged when the server answered the DELETE request
\* with a status that is not 2xx, 401 included.
C17_DeleteOnlyOn2xx ==
  [][(/\ last'.ev = "apiResp"
      /\ OwnerVerb(last'.owner) = "delete"
      /\ last'.resp # NetworkError
      /\ ~Ok(last'.resp)) =>
       /\ company'.companies = company.companies
       /\ \A store \in {"transaction", "invoice"} :
            /\ lists'[store].items = lists[store].items
            /\ lists'[store].total = lists[store].total
    ]_vars

\* C12 as stated: formatPercent shows 100 times its argument with one
\* decimal place, so 0.125 is shown as 12.5 %.
C12_FractionAsPercentage ==
  shown.by = "formatPercent" =>
    2 * Abs(shown.tenths * shown.arg[2] - 1000 * shown.arg[1]) <= shown.arg[2]

\* C12, amended: formatPercent shows its argument itself, taken as a number
\* of percent, rounded to one decimal place (12.5 is shown as 12,5 % and
\* 0.125 as 0,1 %); a fraction is shown as its percentage where the caller
\* multiplies it by 100 first, as TaxOptimizer does, and Dashboard shows
\* the absolute value of the growth it is given.
C12_ArgumentAsPercent ==
  LET n == shown.arg[1]
      d == shown.arg[2]
      t == shown.tenths
  IN /\ shown.by = "formatPercent" => 2 * Abs(t * d - 10 * n) <= d
     /\ shown.by = "Dashboard" => 2 * Abs(t * d - 10 * Abs(n)) <= d
     /\ shown.by = "TaxOptimizer" => 2 * Abs(t * d - 1000 * n) <= d

\* formatPercent(0.125) is "0,1 %"
C12_Witness ==
  /\ shown.by = "formatPercent"
  /\ shown.arg = <<1250, 10000>>
  /\ shown.tenths = 1

\* the session fields of the auth store are those of a logged-out store
LoggedOut(s) ==
  /\ s.accessToken = Null
  /\ s.refreshToken = Null
  /\ s.user = Null
  /\ ~s.isAuthenticated

\* a step in which refreshAccessToken, called by fetchUser or by a user of
\* the store, resolved false
RefreshFalse(step) == step.val = "false" /\ step.kind \notin ApiKinds

\* C13 as stated: whenever refreshAccessToken resolves false the store is
\* logged out: accessToken, refreshToken and user are null and
\* isAuthenticated is false, whether there was no refresh token, the
\* answer was not ok or the request failed.
C13_FalseMeansLoggedOut ==
  [][RefreshFalse(last') => LoggedOut(auth')]_vars

\* C13, amended: whenever refreshAccessToken resolves false, accessToken
\* and refreshToken are null and isAuthenticated is false; user is null as
\* well when the refresh request was answered not ok or failed, for then
\* logout() has run, whereas without a refresh token the call returns
\* false and leaves the store, user included, as it was.
C13_FalseLeavesNoTokens ==
  [][RefreshFalse(last') =>
       /\ auth'.accessToken = Null
       /\ auth'.refreshToken = Null
       /\ ~auth'.isAuthenticated
       /\ IF last'.ev = "refreshResp"
            THEN auth' = Logout(auth) /\ auth'.user = Null
            ELSE auth' = auth
    ]_vars

\* refreshAccessToken returned false for want of a refresh token and the
\* user is still there
C13_Witness ==
  /\ RefreshFalse(last)
  /\ last.ev = "refreshStart"
  /\ auth.user # Null

\* C14: in every state isAuthenticated is true exactly when accessToken is
\* not null.
C14_AuthenticatedIffToken == auth.isAuthenticated <=> auth.accessToken # Null

\* C15: once the store is logged out, the completion of a
\* refreshAccessToken or fetchUser call that was in flight writes neither
\* tokens nor user back.
C15_LogoutIsFinal ==
  [][(/\ last'.ev \in {"refreshResp", "meResp"}
      /\ LoggedOut(auth)) =>
       /\ auth'.accessToken = Null
       /\ auth'.refreshToken = Null
       /\ auth'.user = Null
    ]_vars

C16_OneRefreshSucceedsSuffices ==
  [][(/\ last.ev = "refreshResp"
      /\ last.kind \in ApiKinds
      /\ last.val = "true"
      /\ auth.isAuthenticated
      /\ last'.ev = "refreshResp"
      /\ last'.kind \in ApiKinds
      /\ last'.val = "false"
      /\ last'.resp # NetworkError
      /\ \A o \in CallIds : ops'[o].pc # "h_refresh") =>
       /\ auth'.isAuthenticated
       /\ auth'.accessToken = last.resp.body.access_token
       /\ auth'.refreshToken = last.resp.body.refresh_token
    ]_vars

\* C18: logout() sets user, accessToken and refreshToken to null,
\* isAuthenticated to false and error to null in one update and changes
\* nothing else: isLoading of the auth store, the company store with its
\* persisted currentCompany, the settings store and the transaction and
\* invoice stores are what they were.
C18_LogoutFrame ==
  [][last'.ev \in {"logout", "handleLogout"} =>
       /\ auth' = [auth EXCEPT !.user = Null, !.accessToken = Null,
                               !.refreshToken = Null,
                               !.isAuthenticated = FALSE, !.error = Null]
       /\ auth'.isLoading = auth.isLoading
       /\ company' = company
       /\ companyStorage' = companyStorage
       /\ settings' = settings
       /\ settingsStorage' = settingsStorage
       /\ lists' = lists
    ]_vars

\* logged out while a login is in flight, a company is selected and the
\* settings are not the initial ones
C18_Witness ==
  /\ last.ev = "logout"
  /\ auth.isLoading
  /\ auth.accessToken = Null
  /\ company.currentCompany # Null
  /\ companyStorage.currentCompany # Null
  /\ settings.theme = "dark"

\* a step in which a call of login (not the one register makes) failed
LoginFailed(step) ==
  /\ step.ev = "loginResp"
  /\ step.kind = "login"
  /\ (step.resp = NetworkError \/ ~Ok(step.resp))

\* the detail the server sent, when it sent one
HasDetail(resp) ==
  /\ resp # NetworkError
  /\ resp.body.kind = "object"
  /\ Truthy(resp.body.detail)

\* what a failed login leaves alone and what it reports
LoginFailureKeeps(s, t, step) ==
  /\ ~t.isLoading
  /\ step.out = "rejected"
  /\ t.accessToken = s.accessToken
  /\ t.refreshToken = s.refreshToken
  /\ t.isAuthenticated = s.isAuthenticated
  /\ t.user = s.user

\* C20 as stated: when login fails, by a response that is not ok or by a
\* network error, error is the detail of the server or else the default
\* message, isLoading is false, login rejects and accessToken,
\* refreshToken, isAuthenticated and user are what they were.
C20_LoginFailureDetailOrDefault ==
  [][LoginFailed(last') =>
       /\ LoginFailureKeeps(auth, auth', last')
       /\ auth'.error = IF HasDetail(last'.resp) THEN last'.resp.body.detail
                        ELSE LoginFailedMsg
    ]_vars

\* C20, amended: when login fails, error is the detail of the server when
\* the response has a JSON object body with a non-empty detail, the default
\* message when that body has no detail or an empty one, and otherwise the
\* message of the error that was thrown: that of fetch on a network error,
\* that of response.json() on a body that is not JSON, that of reading
\* detail of null on a null body.  isLoading is false, login rejects with
\* that error, and accessToken, refreshToken, isAuthenticated and user are
\* what they were.
C20_LoginFailureMessage ==
  [][LoginFailed(last') =>
       /\ LoginFailureKeeps(auth, auth', last')
       /\ auth'.error = last'.err.message
       /\ LET r == last'.resp IN
          IF r = NetworkError THEN last'.err = FetchFailed
          ELSE IF r.body.kind = "text" THEN last'.err = SyntaxErr
          ELSE IF r.body.kind = "null" THEN last'.err = TypeErrorNull
          ELSE /\ last'.err.type = "Error"
               /\ auth'.error = IF HasDetail(r) THEN r.body.detail
                                ELSE LoginFailedMsg
    ]_vars

\* a login of a user who still holds tokens failed on a network error
C20_Witness ==
  /\ LoginFailed(last)
  /\ last.resp = NetworkError
  /\ auth.error = FetchFailed.message
  /\ auth.accessToken # Null
  /\ auth.isAuthenticated
  /\ ~auth.isLoading

\* a step in which the request of an action of the transaction or invoice
\* store was answered with a 2xx status
ListSucceeded(step, verb) ==
  /\ step.ev = "apiResp"
  /\ OwnerStore(step.owner) \in {"transaction", "invoice"}
  /\ OwnerVerb(step.owner) = verb
  /\ step.resp # NetworkError
  /\ Ok(step.resp)

\* pagination and filters of a list store are the same in l and m
SamePaging(l, m) ==
  /\ m.currentPage = l.currentPage
  /\ m.pageSize = l.pageSize
  /\ m.pages = l.pages
  /\ m.filters = l.filters

\* C21: in the invoice and transaction stores a successful create puts the
\* returned entity at the head of the list and raises total by 1, a
\* successful delete(id) removes every entry with that id and lowers total
\* by 1, and both leave currentPage, pageSize, pages and filters alone.
C21_CreateAndDelete ==
  [][LET store == OwnerStore(last'.owner)
         before == lists[store]
         after == lists'[store]
         kept(e) == EntityId(e) # last'.arg
     IN /\ ListSucceeded(last', "create") =>
             /\ after.items = <<last'.resp.body.data>> \o before.items
             /\ after.total = before.total + 1
             /\ SamePaging(before, after)
        /\ ListSucceeded(last', "delete") =>
             /\ after.items = SelectSeq(before.items, kept)
             /\ \A i \in DOMAIN after.items : kept(after.items[i])
             /\ after.total = before.total - 1
             /\ SamePaging(before, after)
    ]_vars

\* createInvoice put the new invoice in front of the one fetched before
C21_Witness ==
  /\ ListSucceeded(last, "create")
  /\ last.owner = "createInvoice"
  /\ lists.invoice.items = <<"i2", "i1">>
  /\ lists.invoice.total = 2

\* C22: total of the invoice store and of the transaction store is never
\* negative.
C22_TotalNeverNegative ==
  \A store \in {"transaction", "invoice"} : lists[store].total >= 0

\* C23: a successful updateInvoice, markAsPaid or updateTransaction for id
\* replaces exactly the entries whose id is id by the entity the server
\* returned; length, order, the other entries, total and pagination are
\* unchanged, and so is the whole list when no entry has that id.
C23_UpdateReplacesInPlace ==
  [][ListSucceeded(last', "update") =>
       LET store == OwnerStore(last'.owner)
           before == lists[store]
           after == lists'[store]
           hit(i) == EntityId(before.items[i]) = last'.arg
       IN /\ Len(after.items) = Len(before.items)
          /\ \A i \in DOMAIN before.items :
               after.items[i] = IF hit(i) THEN last'.resp.body.data
                                ELSE before.items[i]
          /\ (\A i \in DOMAIN before.items : ~hit(i)) =>
               after.items = before.items
          /\ after.total = before.total
          /\ SamePaging(before, after)
    ]_vars

\* invoice 1 of a list of two was marked as paid: the other entry and the
\* order are kept
C23_Witness ==
  /\ ListSucceeded(last, "update")
  /\ last.owner = "markAsPaid"
  /\ last.arg = 1
  /\ lists.invoice.items = <<"i2", "i1b">>
  /\ lists.invoice.total = 4

\* C24: after a successful fetchInvoices(companyId, f) or
\* fetchTransactions(companyId, f) the list, total, pages, currentPage and
\* pageSize are those of the response and filters is f with company_id set
\* to companyId, whatever setFilters stored before; the request asks for
\* page f.page, or the stored currentPage when f has none, and for
\* page_size f.page_size, or the stored pageSize when f has none.
C24_FetchStoresResponse ==
  [][LET store == OwnerStore(last'.owner)
         before == lists[store]
         after == lists'[store]
         data == last'.resp.body.data
         f == last'.f
     IN /\ ListSucceeded(last', "fetch") =>
             /\ after.items = data.items
             /\ after.total = data.total
             /\ after.pages = data.pages
             /\ after.currentPage = data.page
             /\ after.pageSize = data.page_size
             /\ after.filters = [f EXCEPT !.company_id = last'.arg]
             /\ ~after.isLoading
        /\ (/\ last'.ev = "apiStart"
            /\ store \in {"transaction", "invoice"}
            /\ OwnerVerb(last'.owner) = "fetch") =>
             /\ last'.query.company_id = last'.arg
             /\ last'.query.page =
                  IF Has(f, "page") THEN f.page ELSE before.currentPage
             /\ last'.query.page_size =
                  IF Has(f, "page_size") THEN f.page_size ELSE before.pageSize
    ]_vars

\* fetchInvoices(2, {page: 2, page_size: 2}) was answered with page 2
C24_Witness ==
  /\ ListSucceeded(last, "fetch")
  /\ last.owner = "fetchInvoices"
  /\ last.arg = 2
  /\ last.f.page = 2
  /\ last.query.page = 2
  /\ lists.invoice.currentPage = 2
  /\ lists.invoice.filters =
       [company_id |-> 2, type |-> Undefined, page |-> 2, page_size |-> 2]

\* a step in which the request of a fetch action was answered 2xx
FetchSucceeded(step) ==
  /\ step.ev = "apiResp"
  /\ OwnerVerb(step.owner) = "fetch"
  /\ step.resp # NetworkError
  /\ Ok(step.resp)

\* the entities of the response of a fetch action
FetchedItems(step) ==
  IF OwnerStore(step.owner) = "company" THEN step.resp.body.data
  ELSE step.resp.body.data.items

\* C25: when calls of one fetch action overlap, the store holds, once all
\* have completed, the result of the call that was started last, also when
\* the response of that call came first.
C25_LastStartedWins ==
  [][(/\ FetchSucceeded(last)
      /\ FetchSucceeded(last')
      /\ last'.owner = last.owner
      /\ last'.seq < last.seq
      /\ \A o \in CallIds : ops'[o].owner # last.owner) =>
       StoreView(last.owner, company', lists').items = FetchedItems(last)
    ]_vars

\* an action of the store is in flight
InFlight(store) ==
  \E o \in OpIds : ops[o].pc # "idle" /\ OwnerStore(ops[o].owner) = store

\* C26: in the company, transaction and invoice stores isLoading is true
\* whenever an asynchronous action of the store has been started and has
\* not completed, and false when none is in flight.
C26_LoadingWhileInFlight ==
  /\ InFlight("company") <=> company.isLoading
  /\ \A store \in {"transaction", "invoice"} :
       InFlight(store) <=> lists[store].isLoading

\* C27: a successful fetchCompanies selects the first company of the
\* response as currentCompany exactly when none was selected and the
\* response is not empty; a company that was selected stays selected.
C27_AutoSelectOnlyWhenNone ==
  [][(FetchSucceeded(last') /\ last'.owner = "fetchCompanies") =>
       LET companies == last'.resp.body.data IN
       /\ company'.companies = companies
       /\ company'.currentCompany =
            IF company.currentCompany = Null /\ Len(companies) > 0
              THEN companies[1]
              ELSE company.currentCompany
    ]_vars

\* company 1 was selected and stays selected though the list fetched
\* starts with company 2
C27_Witness ==
  /\ FetchSucceeded(last)
  /\ last.owner = "fetchCompanies"
  /\ company.companies = <<"c2", "c1">>
  /\ company.currentCompany = "c1"
  /\ companyStorage.currentCompany = "c1"

====
